---- MODULE Spec2Model ----
(***************************************************************************)
(* Model of example/hello.c of unisign: a C translation unit that places   *)
(* the signature string magic_comment in a named section of the object     *)
(* file and whose main prints a fixed text and returns 0.                  *)
(*                                                                         *)
(* Strings are sequences of byte values (ASCII codes).  A section          *)
(* attribute string is the sequence of its comma-separated components.     *)
(* An optional value (exit status, value of the printf call) is a set of   *)
(* at most one element.                                                    *)
(***************************************************************************)
EXTENDS Integers, Sequences, FiniteSets

VARIABLES
    pc,          \* "source", "built", "main", "returning", "exiting",
                 \* "exited", "killed", "blocked"
    literal,     \* the characters of the initialiser of magic_comment
    format,      \* object format of the target: "macho", "elf", "other"
    apple,       \* __APPLE__ is defined
    mach,        \* __MACH__ is defined
    attr,        \* the section attribute the preprocessor kept
    sections,    \* the sections of the binary that come from the declaration
    buffering,   \* how many bytes of a text printed the C library writes to
                 \* standard output in the call; it holds the rest back
    fail,        \* what a write that standard output does not accept does
    buf,         \* the text the C library holds back for standard output
    main_ret,    \* the value main returned
    argv,        \* command-line arguments of the run
    envp,        \* environment of the run
    stdin,       \* bytes available on standard input
    room,        \* number of bytes standard output accepts before it fails
    mem,         \* the bytes of magic_comment in the process image
    out,         \* bytes written to standard output
    err,         \* bytes written to standard error
    printf_ret,  \* value of the printf call expression (discarded)
    nprintf,     \* number of printf calls made by this run
    status,      \* exit status of a process that exited
    prevBuild,   \* the build before this one (history, for comparisons)
    prevRun      \* the run before this one (history, for comparisons)

vars == <<pc, literal, format, apple, mach, attr, sections, argv, envp, stdin,
          room, buffering, fail, buf, mem, out, err, printf_ret, nprintf,
          main_ret, status, prevBuild, prevRun>>

buildVars == <<format, apple, mach, attr, sections>>
runVars == <<argv, envp, stdin, room, buffering, fail, buf, mem, out, err,
             printf_ret, nprintf, main_ret, status>>

----------------------------------------------------------------------------
(* Bounds *)

\* Standard output accepts between 0 and MaxRoom bytes.
MaxRoom == 15

----------------------------------------------------------------------------
(* The translation unit *)

NUL == 0

EOF == -1

\* "us1-r/GZBm1d749E+KbBLWaEnR5fNz626Deutp0P9F4ICt5EOqGw+DeMQUNHb5TLBt+gol0p82zcb9sMDO+Ai7e2TA=="
MagicLiteral ==
    <<117,115,49,45,114,47,71,90,66,109,49,100,55,52,57,69,43,75,98,66,76,87,
      97,69,110,82,53,102,78,122,54,50,54,68,101,117,116,112,48,80,57,70,52,73,
      67,116,53,69,79,113,71,119,43,68,101,77,81,85,78,72,98,53,84,76,66,116,
      43,103,111,108,48,112,56,50,122,99,98,57,115,77,68,79,43,65,105,55,101,
      50,84,65,61,61>>

\* "Hello, world!\n": the escape \n is the byte 10.
HelloText == <<72,101,108,108,111,44,32,119,111,114,108,100,33,10>>

TextLen == Len(HelloText)

\* section("__NOTE,__unisign"): segment and section, separated by a comma.
MachOAttr == <<"__NOTE", "__unisign">>

\* section(".note.unisign")
ElfAttr == <<".note.unisign">>

\* #if defined(__APPLE__) && defined(__MACH__) ... #else ... #endif:
\* the one attribute that survives preprocessing.
SectionAttr(a, m) == IF a /\ m THEN MachOAttr ELSE ElfAttr

\* const char magic_comment[] = "...": an array of unknown size initialised
\* from a string literal holds the characters and the terminating NUL.
CharArrayInit(lit) == lit \o <<NUL>>

\* Mutant: an ELF note header (namesz, descsz, type as 4-byte words) before
\* the object.
SectionContentsNoteHeader(fmt, obj) == <<8, 0, 0, 0, Len(obj), 0, 0, 0, 1, 0, 0, 0>> \o obj

\* __attribute__((section(...))) on the object: the section holds the bytes
\* of the object as they are, on every format.
SectionContents(fmt, obj) == obj

\* The preprocessor macros a toolchain predefines for a target of each
\* object format: both on Darwin (Mach-O); never __APPLE__ on ELF, where
\* __MACH__ is defined on GNU/Hurd; never both elsewhere.
Predefined(fmt) ==
    CASE fmt = "macho" -> {<<TRUE, TRUE>>}
      [] fmt = "elf"   -> {<<FALSE, FALSE>>, <<FALSE, TRUE>>}
      [] OTHER         -> {<<FALSE, FALSE>>, <<TRUE, FALSE>>, <<FALSE, TRUE>>}

Formats == {"macho", "elf", "other"}

\* The assembler of the toolchain: the GNU assembler, or the one built into
\* an LLVM compiler.
Assemblers == {"gnu", "llvm"}

\* Whether the build accepts the attribute: a Mach-O section specifier needs
\* a segment and a section; elsewhere the GNU assembler rejects a section
\* name with a comma, which the LLVM one takes as it is.
Placeable(as, fmt, at) ==
    IF fmt = "macho" THEN Len(at) = 2 ELSE (Len(at) = 1 \/ as = "llvm")

\* The name under which the object file holds the section: segment and
\* section on Mach-O, the whole attribute string elsewhere.
Placement(fmt, at) ==
    IF fmt = "macho"
    THEN [segment |-> at[1], section |-> at[2]]
    ELSE [segment |-> "",
          section |-> IF Len(at) = 1 THEN at[1] ELSE at[1] \o "," \o at[2]]

\* The sections of the binary that the declaration of magic_comment
\* produces.  Nothing refers to the object and it is not marked used: a
\* build that keeps it has the one section; a build that discards what is
\* not referred to (link-time or whole-program optimisation) has none.
Sections(fmt, at, lit, keep) ==
    IF keep
    THEN {[segment  |-> Placement(fmt, at).segment,
           section  |-> Placement(fmt, at).section,
           contents |-> SectionContents(fmt, CharArrayInit(lit))]}
    ELSE {}

----------------------------------------------------------------------------
(* The run *)

Argvs == {<<"hello">>, <<"hello", "x">>}
Envs == {{}, {"LANG=C"}}
Stdins == {<<>>, <<65>>}
Rooms == 0..MaxRoom

\* The C library writes the first bytes of the text in the call and holds
\* the rest back until the stream is flushed at exit: none written on a
\* fully buffered stream with room for the text (a file, a pipe), all on an
\* unbuffered or line-buffered one (the text ends with a newline), a part
\* on a fully buffered stream whose buffer is small.
Bufferings == 0..TextLen

\* What a write does once standard output accepts no more: it returns an
\* error (closed or full stream, signal ignored), a signal kills the process
\* (SIGPIPE, SIGXFSZ), or it waits for ever (a full pipe that is not read).
Fails == {"error", "signal", "block"}

Min(a, b) == IF a < b THEN a ELSE b

\* What of text a stream that accepts r bytes takes.
Accepted(text, r) == SubSeq(text, 1, Min(r, Len(text)))

\* The part of text the C library writes in the call, and the part it holds
\* back, when it writes n bytes in the call.
WrittenInCall(text, n) == SubSeq(text, 1, Min(n, Len(text)))

HeldBack(text, n) == SubSeq(text, Min(n, Len(text)) + 1, Len(text))

\* How the write of text ends on a stream that accepts r bytes and then
\* fails as f.
WriteEnd(text, r, f) == IF r >= Len(text) THEN "ok" ELSE f

\* Where the process is after a write: at the next statement, killed by the
\* signal, or waiting in the write.
PcAfterWrite(end, next) ==
    CASE end \in {"ok", "error"} -> next
      [] end = "signal"          -> "killed"
      [] OTHER                   -> "blocked"

\* Mutants of the text printed: it depends on the arguments, or it is the
\* signature string in the image.
PrintfTextArgs == IF Len(argv) > 1 THEN HelloText \o <<120>> ELSE HelloText

PrintfTextMagic == mem

\* printf("Hello, world!\n"): the format has no conversion and no argument,
\* so the text printed is the format itself.
PrintfText == HelloText

\* The value of a printf call whose write ended as end: the number of bytes,
\* a negative value on an error, none when the call does not return.
PrintfRet(text, end) ==
    CASE end = "ok"    -> {Len(text)}
      [] end = "error" -> {EOF}
      [] OTHER         -> {}

\* Mutant: printf writes through the object.
MemAfterPrintfClobber == [mem EXCEPT ![1] = NUL]

\* main does not name magic_comment: the call leaves its bytes as they are.
MemAfterPrintf == mem

\* Mutant: the result of printf decides the value returned.
ReturnValueChecked == IF \E r \in printf_ret : r < 0 THEN 1 ELSE 0

\* return 0;
ReturnValue == 0

\* Mutant: return before the call.
NextPcSkip(p) == "exited"

\* main is straight-line code: the call, then the return, after which the
\* C runtime ends the process.
NextPc(p) ==
    CASE p = "main"      -> "returning"
      [] p = "returning" -> "exiting"
      [] OTHER           -> "exited"

----------------------------------------------------------------------------
(* State machine *)

NoInput == <<>>

Init ==
    /\ pc = "source"
    /\ literal = MagicLiteral
    /\ format = "none"
    /\ apple = FALSE
    /\ mach = FALSE
    /\ attr = <<>>
    /\ sections = {}
    /\ argv = NoInput
    /\ envp = {}
    /\ stdin = NoInput
    /\ room = 0
    /\ buffering = 0
    /\ fail = "error"
    /\ buf = <<>>
    /\ mem = <<>>
    /\ out = <<>>
    /\ err = <<>>
    /\ printf_ret = {}
    /\ nprintf = 0
    /\ main_ret = {}
    /\ status = {}
    /\ prevBuild = {}
    /\ prevRun = {}

\* The compiler and linker turn the source into a binary for one target.
Compile ==
    /\ pc = "source"
    /\ \E fmt \in Formats, as \in Assemblers, keep \in BOOLEAN :
       \E d \in Predefined(fmt) :
          /\ Placeable(as, fmt, SectionAttr(d[1], d[2]))
          /\ format' = fmt
          /\ apple' = d[1]
          /\ mach' = d[2]
          /\ attr' = SectionAttr(d[1], d[2])
          /\ sections' = Sections(fmt, SectionAttr(d[1], d[2]), literal, keep)
    /\ pc' = "built"
    /\ UNCHANGED <<literal, prevBuild, prevRun>>
    /\ UNCHANGED runVars

\* The process starts: main is entered with the image loaded.
Start(a, e, s, r, b, f) ==
    /\ argv' = a
    /\ envp' = e
    /\ stdin' = s
    /\ room' = r
    /\ buffering' = b
    /\ fail' = f
    /\ buf' = <<>>
    /\ mem' = IF sections = {} THEN <<>> ELSE (CHOOSE x \in sections : TRUE).contents
    /\ out' = <<>>
    /\ err' = <<>>
    /\ printf_ret' = {}
    /\ nprintf' = 0
    /\ main_ret' = {}
    /\ status' = {}
    /\ pc' = "main"
    /\ UNCHANGED <<literal, prevBuild, prevRun>>
    /\ UNCHANGED buildVars

\* The binary is run.
Exec ==
    /\ pc = "built"
    /\ prevRun = {}
    /\ \E a \in Argvs, e \in Envs, s \in Stdins, r \in Rooms,
          b \in Bufferings, f \in Fails : Start(a, e, s, r, b, f)

\* printf("Hello, world!\n");
Printf ==
    /\ pc = "main"
    /\ nprintf' = nprintf + 1
    /\ mem' = MemAfterPrintf
    /\ LET now   == WrittenInCall(PrintfText, buffering)
           later == HeldBack(PrintfText, buffering)
           end   == WriteEnd(now, room - Len(out), fail)
       IN  /\ out' = out \o Accepted(now, room - Len(out))
           /\ buf' = IF end = "ok" THEN buf \o later ELSE buf
           /\ printf_ret' = PrintfRet(PrintfText, end)
           /\ pc' = PcAfterWrite(end, NextPc(pc))
    /\ UNCHANGED <<literal, argv, envp, stdin, room, buffering, fail, err,
                   main_ret, status, prevBuild, prevRun>>
    /\ UNCHANGED buildVars

\* return 0;
Return ==
    /\ pc = "returning"
    /\ main_ret' = {ReturnValue}
    /\ pc' = NextPc(pc)
    /\ UNCHANGED <<literal, argv, envp, stdin, room, buffering, fail, buf, mem,
                   out, err, printf_ret, nprintf, status, prevBuild, prevRun>>
    /\ UNCHANGED buildVars

\* The closing brace of main: the C runtime flushes standard output and the
\* process exits with the value main returned, unless the write of the
\* text held back kills or blocks it.
Exit ==
    /\ pc = "exiting"
    /\ out' = out \o Accepted(buf, room - Len(out))
    /\ buf' = <<>>
    /\ pc' = PcAfterWrite(WriteEnd(buf, room - Len(out), fail), NextPc(pc))
    /\ status' = IF WriteEnd(buf, room - Len(out), fail) \in {"ok", "error"}
                 THEN main_ret ELSE {}
    /\ UNCHANGED <<literal, argv, envp, stdin, room, buffering, fail, mem, err,
                   printf_ret, nprintf, main_ret, prevBuild, prevRun>>
    /\ UNCHANGED buildVars

Next == Compile \/ Exec \/ Printf \/ Return \/ Exit

Spec == Init /\ [][Next]_vars

\* A started process is executed: main is single-threaded and its
\* statements wait for nothing but the write, whose waiting is the state
\* "blocked".
FairSpec == Spec /\ WF_vars(Printf) /\ WF_vars(Return) /\ WF_vars(Exit)

----------------------------------------------------------------------------
(* History: a second build, a second run, a re-signed source *)

\* A different signature of the same shape.
OtherLiteral == [MagicLiteral EXCEPT ![5] = 65, ![6] = 66]

Blobs == {MagicLiteral, OtherLiteral}

ThisBuild == [format |-> format, apple |-> apple, mach |-> mach,
              sections |-> sections]

ThisRun == [argv |-> argv, envp |-> envp, stdin |-> stdin, blob |-> mem,
            room |-> room, buffering |-> buffering, fail |-> fail,
            out |-> out, status |-> status, end |-> pc]

ResetBuild ==
    /\ format' = "none"
    /\ apple' = FALSE
    /\ mach' = FALSE
    /\ attr' = <<>>
    /\ sections' = {}

ResetRun ==
    /\ argv' = NoInput
    /\ envp' = {}
    /\ stdin' = NoInput
    /\ room' = 0
    /\ buffering' = 0
    /\ fail' = "error"
    /\ buf' = <<>>
    /\ mem' = <<>>
    /\ out' = <<>>
    /\ err' = <<>>
    /\ printf_ret' = {}
    /\ nprintf' = 0
    /\ main_ret' = {}
    /\ status' = {}

\* The same source is compiled again, for any target; the build it replaces
\* is remembered.
Recompile ==
    /\ pc = "built"
    /\ prevBuild' = {ThisBuild}
    /\ pc' = "source"
    /\ ResetBuild
    /\ UNCHANGED <<literal, prevRun>>
    /\ UNCHANGED runVars

\* A run has ended (exited, or killed by a signal) and is remembered.
Rerun ==
    /\ pc \in {"exited", "killed"}
    /\ prevRun' = {ThisRun}
    /\ pc' = "built"
    /\ ResetRun
    /\ UNCHANGED <<literal, prevBuild>>
    /\ UNCHANGED buildVars

\* The binary is run again, with other arguments, another environment and
\* another standard input, on a standard output that behaves as in the run
\* before.
ExecAgain ==
    /\ pc = "built"
    /\ \E p \in prevRun :
       \E a \in Argvs \ {p.argv}, e \in Envs \ {p.envp}, s \in Stdins \ {p.stdin} :
          Start(a, e, s, p.room, p.buffering, p.fail)

\* The source is signed anew: the initialiser of magic_comment changes and
\* the binary is out of date.
Resign ==
    /\ pc \in {"source", "built"}
    /\ \E l \in Blobs : l # literal /\ literal' = l
    /\ pc' = "source"
    /\ ResetBuild
    /\ UNCHANGED <<prevBuild, prevRun>>
    /\ UNCHANGED runVars

NextBuilds == Compile \/ Recompile

BuildSpec == Init /\ [][NextBuilds]_vars

NextRuns == Next \/ Rerun \/ ExecAgain \/ Resign

RunSpec == Init /\ [][NextRuns]_vars

----------------------------------------------------------------------------
(* Properties *)

\* C1, as stated: every run ends, by exiting, having written exactly
\* "Hello, world!\n" with one call, and its exit status is 0.
C1_EveryRunWritesHello ==
    /\ pc \notin {"killed", "blocked"}
    /\ pc = "exited" =>
          /\ out = <<72,101,108,108,111,44,32,119,111,114,108,100,33,10>>
          /\ nprintf = 1
          /\ status = {0}

\* C1, amended: nothing is written before the call, and never anything but
\* the first bytes of "Hello, world!\n" that standard output accepts.  A
\* process that exits made one call, wrote those bytes (the whole text, and
\* nothing after it, when standard output accepts 14 bytes or more) and has
\* status 0.  Only a run whose standard output accepts less can be killed by
\* the signal of the write or wait in it, and then it has no exit status.
C1_WritesHelloWhenAccepted ==
    LET hello == <<72,101,108,108,111,44,32,119,111,114,108,100,33,10>>
        taken == IF room < 14 THEN room ELSE 14
    IN  /\ pc = "main" => out = <<>>
        /\ Len(out) <= taken
        /\ out = SubSeq(hello, 1, Len(out))
        /\ pc = "exited" =>
              /\ nprintf = 1
              /\ status = {0}
              /\ out = SubSeq(hello, 1, taken)
        /\ pc \in {"killed", "blocked"} =>
              /\ room < 14
              /\ nprintf = 1
              /\ status = {}
              /\ out = SubSeq(hello, 1, room)

C1_Witness ==
    /\ pc = "exited"
    /\ room = 15
    /\ buffering = 0
    /\ argv = <<"hello", "x">>
    /\ out = HelloText
    /\ status = {0}

\* C2: the binary holds the signature in the section the target's format
\* names: __unisign in segment __NOTE on Mach-O, .note.unisign on ELF, and
\* the contents are the literal with its terminator.
C2_SectionOfFormat ==
    pc # "source" =>
        /\ format = "macho" =>
              sections = {[segment |-> "__NOTE", section |-> "__unisign",
                           contents |-> MagicLiteral \o <<0>>]}
        /\ format = "elf" =>
              sections = {[segment |-> "", section |-> ".note.unisign",
                           contents |-> MagicLiteral \o <<0>>]}

\* C3: two builds of the source have each the section of their format, with
\* the same contents; a build for Mach-O and one for ELF differ in the name
\* only.
C3_SameContentsAcrossFormats ==
    \A b \in prevBuild :
        pc = "built" =>
            /\ sections # {}
            /\ b.sections # {}
            /\ \A t \in b.sections : \A s \in sections :
                  /\ s.contents = t.contents
                  /\ (b.format = "macho" /\ format = "elf") =>
                        /\ t.segment = "__NOTE" /\ t.section = "__unisign"
                        /\ s.segment = "" /\ s.section = ".note.unisign"
                  /\ (b.format = "elf" /\ format = "macho") =>
                        /\ s.segment = "__NOTE" /\ s.section = "__unisign"
                        /\ t.segment = "" /\ t.section = ".note.unisign"

\* C4, as stated: a run that ended with less than the text written has exit
\* status 0 and wrote no error output.
C4_ExitZeroUnconditionally ==
    (pc \in {"exited", "killed"} /\ Len(out) < 14) => status = {0} /\ err = <<>>

\* C4, amended: main returns 0 whenever it returns, whatever the call
\* returned, and a process that exits has status 0, also when the write
\* failed; no error output is written.  A run has no exit status only when
\* standard output accepted less than the text and the write killed the
\* process by a signal or waits for ever.
C4_MainReturnsZero ==
    /\ err = <<>>
    /\ main_ret \subseteq {0}
    /\ pc \in {"exiting", "exited"} => main_ret = {0}
    /\ pc = "exited" => status = {0}
    /\ pc = "killed" => room < 14 /\ fail = "signal" /\ status = {}
    /\ pc = "blocked" => room < 14 /\ fail = "block" /\ status = {}

C4_Witness ==
    /\ pc = "exited"
    /\ room = 0
    /\ buffering = 14
    /\ fail = "error"
    /\ out = <<>>
    /\ printf_ret = {EOF}
    /\ main_ret = {0}
    /\ status = {0}

\* C5: from the start of main to the end of the run the bytes of
\* magic_comment in the image are those the build gave it: the literal and
\* its terminator (none in a build that discarded the object).
C5_BlobImmutable ==
    pc \in {"main", "returning", "exiting", "exited", "killed", "blocked"} =>
        mem = IF sections = {} THEN <<>> ELSE MagicLiteral \o <<0>>

C5_Witness ==
    /\ pc = "exited"
    /\ nprintf = 1
    /\ sections # {}
    /\ out = HelloText
    /\ mem = CharArrayInit(MagicLiteral)

\* C6, as stated: a run is the start, then the one write of the text, then
\* the return of status 0: bytes reach standard output only in the step
\* from the start to the return, the call has been made exactly once, and a
\* run that has started ends with status 0.
C6_StartWriteReturn ==
    /\ [][out' # out => (pc = "main" /\ pc' = "returning")]_vars
    /\ [](pc = "main" => nprintf = 0)
    /\ [](pc \in {"returning", "exiting", "exited"} => nprintf = 1)
    /\ ((pc = "main") ~> (pc = "exited" /\ status = {0}))

\* C6, amended: a run is the start, then the one call of printf, then the
\* return of 0 from main, then the exit of the process.  The bytes reach
\* standard output in the call, as far as the C library does not hold them
\* back, and the rest in the flush at exit, after main returned; they are
\* the bytes of the text in their order.  A write that standard
\* output does not accept may kill the process or wait for ever; a run
\* whose write does not wait ends, and one whose write is accepted or only
\* fails with an error exits with status 0.
C6_CallReturnExit ==
    /\ [][/\ pc = "main" => (/\ pc' \in {"returning", "killed", "blocked"}
                             /\ nprintf' = nprintf + 1)
          /\ pc = "returning" => (/\ pc' = "exiting"
                                  /\ main_ret' = {0}
                                  /\ nprintf' = nprintf
                                  /\ out' = out)
          /\ pc = "exiting" => (/\ pc' \in {"exited", "killed", "blocked"}
                                /\ nprintf' = nprintf)
          /\ pc' = "exited" => pc = "exiting"
          /\ out' # out => \/ pc = "main" /\ buffering > 0 /\ Len(out') <= buffering
                           \/ pc = "exiting" /\ buffering < 14
          /\ (pc \in {"main", "returning", "exiting"} /\ pc' # pc) =>
                 \E n \in 0..14 :
                    out' = SubSeq(<<72,101,108,108,111,44,32,119,111,114,108,100,33,10>>, 1, n)]_vars
    /\ [](pc = "main" => nprintf = 0)
    /\ [](pc \in {"returning", "exiting", "exited"} => nprintf = 1)
    /\ ((pc = "main" /\ (room >= 14 \/ fail # "block")) ~> (pc \in {"exited", "killed"}))
    /\ ((pc = "main" /\ (room >= 14 \/ fail = "error")) ~> (pc = "exited" /\ status = {0}))

C6_Witness ==
    /\ pc = "exited"
    /\ nprintf = 1
    /\ buffering = 13
    /\ out = HelloText
    /\ status = {0}

\* C7: two runs that differ in arguments, environment, standard input or
\* signature bytes, on a standard output that behaves alike, end alike, with
\* the same output and the same exit status.
C7_OutputIgnoresInputs ==
    \A p \in prevRun :
        (/\ pc \in {"exited", "killed"}
         /\ p.room = room /\ p.buffering = buffering /\ p.fail = fail) =>
            /\ p.end = pc
            /\ p.out = out
            /\ p.status = status

C7_Witness ==
    /\ pc = "exited"
    /\ room >= 14
    /\ out = HelloText
    /\ mem # <<>>
    /\ \E p \in prevRun :
          /\ p.room = room
          /\ p.argv # argv
          /\ p.envp # envp
          /\ p.stdin # stdin
          /\ p.blob # mem
          /\ p.blob # <<>>
          /\ p.out = out

\* C8: every build keeps exactly one of the two attributes and has exactly
\* one section with the signature; the Mach-O name is kept exactly when
\* __APPLE__ and __MACH__ are both defined, and .note.unisign otherwise,
\* also for a target that is neither Mach-O nor ELF.
C8_ExactlyOneBranch ==
    pc # "source" =>
        /\ Cardinality(sections) = 1
        /\ (apple /\ mach) => attr = <<"__NOTE", "__unisign">>
        /\ ~(apple /\ mach) =>
              /\ attr = <<".note.unisign">>
              /\ \A s \in sections : s.segment = "" /\ s.section = ".note.unisign"

\* C9: the section holds 93 bytes: "us1-", 88 base64 characters of which
\* the last two are "=", and one NUL, with no note header before them.
C9_SectionBytes ==
    LET base64 == (65..90) \cup (97..122) \cup (48..57) \cup {43, 47, 61}
    IN  pc # "source" =>
            \A s \in sections :
                /\ Len(s.contents) = 93
                /\ SubSeq(s.contents, 1, 4) = <<117, 115, 49, 45>>
                /\ \A i \in 5..92 : s.contents[i] \in base64
                /\ s.contents[91] = 61 /\ s.contents[92] = 61
                /\ s.contents[93] = 0
                /\ \A i \in 1..92 : s.contents[i] # 0

C9_Witness ==
    /\ pc = "built"
    /\ format = "macho"
    /\ \E s \in sections : Len(s.contents) = 93 /\ s.contents[93] = NUL

====
